---------------------------- MODULE Spec2Model ----------------------------
(***************************************************************************)
(* Tournament pairing engine of springOK-github/swiss-draw.                *)
(*                                                                         *)
(* Two variants share the three sheets (players, match history,            *)
(* in-progress / current round):                                           *)
(*   - the continuous ("gunslinger") variant: match-manager.js, shared.js, *)
(*     the continuous player domain and lock (unnamed/part_005 l.376-874), *)
(*     correctMatchResult of match-results.js, test-utils.js;              *)
(*   - the Swiss variant: match-domain.js, round-manager.js l.1-172, the   *)
(*     Swiss player domain (unnamed/part_005 l.1-377).                     *)
(* The variable variant says which of the two scripts is deployed.         *)
(*                                                                         *)
(* Operators (script executions) run concurrently.  An operation obtains   *)
(* the lock and runs its locked body (one step: nobody else can hold the   *)
(* lock meanwhile) or times out, and then runs its outermost finally       *)
(* block.  An unlocked prologue that reads the sheets is a step of its own.*)
(* LockService locks are per execution and not counted: tryLock by the     *)
(* holder succeeds at once and one releaseLock frees the lock ("has no     *)
(* effect if the lock has not been acquired").                             *)
(*                                                                         *)
(* finishTournament is on the Swiss menu but its code is not part of the   *)
(* sources; the action FinishTournament follows the specification.         *)
(*                                                                         *)
(* A player's name is the player's id (registerTestPlayers, and the Swiss  *)
(* registerPlayer default for an empty name), so name columns are not      *)
(* stored; the history column "winner name" holds the winner's id, 0 when  *)
(* empty.  An id or table number 0 stands for an empty cell.               *)
(***************************************************************************)
EXTENDS Integers, Sequences, FiniteSets, TLC

\* ---------------------------------------------------------------- bounds
MaxPlayers == 4
MaxHistory == 6
MaxClock == 1
MaxConfigTables == 1
MaxOps == 4
MaxSwissOps == 6
MaxSeqOps == 12
MaxRaceOps == 7
MaxRounds == 4

Procs == {1, 2}

\* ------------------------------------------------------ program constants
MAX_TABLES == 50
MIN_TABLE_NUMBER == 1
POINTS_WIN == 3
POINTS_DRAW == 0
POINTS_LOSS == 0
POINTS_BYE == 3

WAITING == "WAITING"
IN_PROGRESS == "IN_PROGRESS"
RESTING == "RESTING"
DROPPED == "DROPPED"
ACTIVE == "ACTIVE"

VARIABLES
  variant,      \* which script is bound to the spreadsheet
  players,      \* rows of the players sheet, in sheet order
  history,      \* rows of the match-history sheet
  inProgress,   \* rows of the in-progress / current-round sheet
  maxTables,    \* document property MAX_TABLES
  currentRound, \* document property CURRENT_ROUND (Swiss)
  tournamentStatus, \* document property, Swiss
  clock,        \* wall clock, in seconds
  lock,         \* 0, or the execution holding the document lock
  pc,           \* per operator: "idle", "wait" (prologue done), "ret" (locked body
                \* done, finally block pending), "out" (lock timed out)
  op,           \* the operation whose body ran last, its arguments, its operator
  ret,          \* outcome of that body ("", "ok", "fail", "timeout")
  run,          \* the pairing run made by the last body, if any: the players
                \* eligible when it started, the pool its pairing loop ran on,
                \* the pairs formed, the bye, the pairs not seated
  local,        \* per operator: what its unlocked prologue read (Swiss results)
  steps         \* number of locked bodies run so far

vars == <<variant, players, history, inProgress, maxTables, currentRound,
          tournamentStatus, clock, lock, pc, op, ret, run, local, steps>>

\* ---------------------------------------------------------------- helpers
Range(s) == {s[i] : i \in 1..Len(s)}

Min(S) == CHOOSE x \in S : \A y \in S : x <= y

Max0(S) == IF S = {} THEN 0 ELSE CHOOSE x \in S : \A y \in S : y <= x

RemoveAt(s, k) == [i \in 1..(Len(s) - 1) |-> IF i < k THEN s[i] ELSE s[i + 1]]

\* write a sheet row: past the last row appends, otherwise overwrites
WriteRow(s, k, r) == IF k = Len(s) + 1 THEN Append(s, r) ELSE [s EXCEPT ![k] = r]

NoOp == [name |-> "none", a |-> 0, b |-> 0, r |-> 0, k |-> "", p |-> 0]

NoLocal == [a |-> 0, b |-> 0, row |-> 0, type |-> ""]

NoRun ==
  [pairs |-> <<>>, elig |-> {}, pool |-> {}, order |-> <<>>, bye |-> 0,
   unseated |-> <<>>, seats |-> <<>>, ran |-> FALSE]

PlayerRow(id, st, t) ==
  [id |-> id, wins |-> 0, losses |-> 0, matches |-> 0, points |-> 0,
   status |-> st, ts |-> t]

IdxOf(pl, id) == IF \E i \in 1..Len(pl) : pl[i].id = id
                 THEN Min({i \in 1..Len(pl) : pl[i].id = id}) ELSE 0

StatusOf(pl, id) == IF IdxOf(pl, id) = 0 THEN "" ELSE pl[IdxOf(pl, id)].status

\* ids of the players whose status cell holds st
WithStatus(pl, st) == {pl[i].id : i \in {j \in 1..Len(pl) : pl[j].status = st}}

\* the timestamps an operation can read from the wall clock
Now == {clock} \cup (IF clock < MaxClock THEN {clock + 1} ELSE {})


\* ============================================================ continuous
\* getWaitingPlayers comparator: wins descending, then timestamp ascending
WaitingBefore(a, b) ==
  \/ a.wins > b.wins
  \/ a.wins = b.wins /\ a.ts < b.ts

\* Array.prototype.sort is stable: a later row goes behind its equals
InsertWaiting(x, s) ==
  LET before == {k \in 1..Len(s) : WaitingBefore(x, s[k])}
      pos == IF before = {} THEN Len(s) + 1 ELSE Min(before)
  IN  [i \in 1..(Len(s) + 1) |->
         IF i < pos THEN s[i] ELSE IF i = pos THEN x ELSE s[i - 1]]

RECURSIVE SortWaiting(_)
SortWaiting(s) ==
  IF s = <<>> THEN <<>>
  ELSE InsertWaiting(s[Len(s)], SortWaiting(SubSeq(s, 1, Len(s) - 1)))

\* variant of getWaitingPlayers that also takes the resting players
getWaitingPlayersAndResting(pl) ==
  SortWaiting(SelectSeq(pl, LAMBDA r : r.status \in {WAITING, RESTING}))

getWaitingPlayers(pl) ==
  SortWaiting(SelectSeq(pl, LAMBDA r : r.status = WAITING))

\* ids of a list of player rows
Ids(rows) == [i \in 1..Len(rows) |-> rows[i].id]

\* variant of getPastOpponents that reads the ID2 column only
getPastOpponentsOneColumn(hist, id) ==
  {hist[i].id1 : i \in {j \in 1..Len(hist) : hist[j].id2 = id}}

getPastOpponents(hist, id) ==
  {hist[i].id2 : i \in {j \in 1..Len(hist) : hist[j].id1 = id}}
    \cup {hist[i].id1 : i \in {j \in 1..Len(hist) : hist[j].id1 # id /\ hist[j].id2 = id}}

\* variant of FirstFresh that takes the last candidate not in the black list
LastFresh(avail, black) ==
  LET ok == {i \in 1..Len(avail) : avail[i] \notin black}
  IN  IF ok = {} THEN 0 ELSE CHOOSE i \in ok : \A j \in ok : j <= i

\* first index of avail whose player is not in the black list, 0 if none
FirstFresh(avail, black) ==
  LET ok == {i \in 1..Len(avail) : avail[i] \notin black}
  IN  IF ok = {} THEN 0 ELSE Min(ok)

\* variant of PairLoop that leaves the loop at the first p1 without a partner
RECURSIVE PairLoopBreaking(_, _)
PairLoopBreaking(avail, hist) ==
  IF Len(avail) < 2 THEN <<>>
  ELSE LET p1 == Head(avail)
           rest == Tail(avail)
           k == FirstFresh(rest, getPastOpponents(hist, p1))
       IN  IF k # 0
           THEN <<(<<p1, rest[k]>>)>> \o PairLoopBreaking(RemoveAt(rest, k), hist)
           ELSE <<>>

\* the while loop of matchPlayers: an unmatched p1 is skipped, the loop goes on
RECURSIVE PairLoop(_, _)
PairLoop(avail, hist) ==
  IF Len(avail) < 2 THEN <<>>
  ELSE LET p1 == Head(avail)
           rest == Tail(avail)
           k == FirstFresh(rest, getPastOpponents(hist, p1))
       IN  IF k # 0
           THEN <<(<<p1, rest[k]>>)>> \o PairLoop(RemoveAt(rest, k), hist)
           ELSE PairLoop(rest, hist)

\* most recent history row that the player won; 0 when there is none
getLastTableNumber(hist, id) ==
  LET won == {i \in 1..Len(hist) :
                hist[i].winner = id /\ (hist[i].id1 = id \/ hist[i].id2 = id)}
  IN  IF won = {} THEN 0 ELSE hist[Max0(won)].table

validateTableNumber(t, mt) == t >= MIN_TABLE_NUMBER /\ t <= mt

\* variant of getNextAvailableTableNumber that ignores the numbers in the sheet
getNextAvailableTableNumberFirst(ip, mt) == MIN_TABLE_NUMBER

\* lowest number of [1, maxTables] absent from the sheet; 0 when it throws
getNextAvailableTableNumber(ip, mt) ==
  LET usedNumbers == {ip[i].table : i \in 1..Len(ip)} \ {0}
      free == {n \in MIN_TABLE_NUMBER..mt : n \notin usedNumbers}
  IN  IF free = {} THEN 0 ELSE Min(free)

SeatRow(t, m) == [round |-> 0, table |-> t, id1 |-> m[1], id2 |-> m[2], result |-> ""]

\* one entry of the record of a seating: the table given to a pair and the
\* sheet as it was when the table was chosen
Seat(t, ip) == [table |-> t, before |-> ip]

\* variant of SeatLoop's use of the winner's last table: never taken
NoLastTable(lastTable, mt, used, hit) == FALSE

\* the winner's last table is taken when it is valid, not in usedTables and
\* among the free rows
UseLastTable(lastTable, mt, used, hit) ==
  /\ lastTable # 0
  /\ validateTableNumber(lastTable, mt)
  /\ lastTable \notin used
  /\ hit # {}

\* the table-assignment loop of matchPlayers.  ip0 is the snapshot matchData
\* taken before the loop, avail the free rows of that snapshot (row indices),
\* used the set usedTables; ip is the live sheet.  A throw of
\* getNextAvailableTableNumber leaves the loop: the rest is not seated.
RECURSIVE SeatLoop(_, _, _, _, _, _, _)
SeatLoop(ms, ip, ip0, avail, used, hist, mt) ==
  IF ms = <<>> THEN [ip |-> ip, unseated |-> <<>>, seats |-> <<>>]
  ELSE
    LET m == Head(ms)
        lastTable == getLastTableNumber(hist, m[1])
        hit == {i \in 1..Len(avail) : ip0[avail[i]].table = lastTable}
        useLast == UseLastTable(lastTable, mt, used, hit)
    IN  IF useLast
        THEN LET i == Min(hit)
                 row == avail[i]
                 r == SeatLoop(Tail(ms),
                               [ip EXCEPT ![row] = SeatRow(ip0[row].table, m)],
                               ip0, RemoveAt(avail, i), used \cup {lastTable}, hist, mt)
             IN  [r EXCEPT !.seats = <<Seat(ip0[row].table, ip)>> \o @]
        ELSE IF avail # <<>>
        THEN LET row == Head(avail)
                 r == SeatLoop(Tail(ms),
                               [ip EXCEPT ![row] = SeatRow(ip0[row].table, m)],
                               ip0, Tail(avail), used \cup {ip0[row].table}, hist, mt)
             IN  [r EXCEPT !.seats = <<Seat(ip0[row].table, ip)>> \o @]
        ELSE LET n == getNextAvailableTableNumber(ip, mt)
                 targetRow == Len(ip0) + 1
                 r == SeatLoop(Tail(ms), WriteRow(ip, targetRow, SeatRow(n, m)),
                               ip0, avail, used \cup {n}, hist, mt)
             IN  IF n = 0
                 THEN [ip |-> ip, unseated |-> ms, seats |-> <<>>]
                 ELSE [r EXCEPT !.seats = <<Seat(n, ip)>> \o @]

SetStatus(pl, ids, st) ==
  [i \in 1..Len(pl) |-> IF pl[i].id \in ids THEN [pl[i] EXCEPT !.status = st] ELSE pl[i]]

PairIds(ms) == UNION {{ms[i][1], ms[i][2]} : i \in 1..Len(ms)}

\* matchPlayers: the state it leaves and the run it made
matchPlayers(pl, hist, ip, mt) ==
  LET waiting == Ids(getWaitingPlayers(pl))
      matches == IF Len(waiting) < 2 THEN <<>> ELSE PairLoop(waiting, hist)
      availableTables ==
        SelectSeq([i \in 1..Len(ip) |-> i],
                  LAMBDA i : ip[i].table # 0 /\ ip[i].id1 = 0)
      usedTables == {ip[i].table : i \in {j \in 1..Len(ip) :
                                           ip[j].table # 0 /\ ip[j].id1 # 0}}
      seated == SeatLoop(matches, ip, ip, availableTables, usedTables, hist, mt)
  IN  IF matches = <<>>
      THEN [players |-> pl, inProgress |-> ip,
            run |-> [pairs |-> <<>>, elig |-> WithStatus(pl, WAITING),
                     pool |-> Range(waiting), order |-> waiting, bye |-> 0,
                     unseated |-> <<>>, seats |-> <<>>, ran |-> TRUE]]
      ELSE [players |-> SetStatus(pl, PairIds(matches), IN_PROGRESS),
            inProgress |-> seated.ip,
            run |-> [pairs |-> matches, elig |-> WithStatus(pl, WAITING),
                     pool |-> Range(waiting), order |-> waiting, bye |-> 0,
                     unseated |-> seated.unseated, seats |-> seated.seats,
                     ran |-> TRUE]]

\* the automatic pairing after an operation: only with two or more waiting
AutoMatch(pl, hist, ip, mt) ==
  IF Len(getWaitingPlayers(pl)) >= 2
  THEN matchPlayers(pl, hist, ip, mt)
  ELSE [players |-> pl, inProgress |-> ip, run |-> NoRun]

\* variant of updatePlayerMatchStats that leaves the played-matches column alone
updatePlayerMatchStatsNoTotal(pl, id, isWinner, t) ==
  LET k == IdxOf(pl, id)
  IN  IF k = 0 THEN pl
      ELSE [pl EXCEPT ![k] = [@ EXCEPT !.wins = @ + (IF isWinner THEN 1 ELSE 0),
                                       !.losses = @ + (IF isWinner THEN 0 ELSE 1),
                                       !.ts = t]]

updatePlayerMatchStats(pl, id, isWinner, t) ==
  LET k == IdxOf(pl, id)
  IN  IF k = 0 THEN pl
      ELSE [pl EXCEPT ![k] = [@ EXCEPT !.wins = @ + (IF isWinner THEN 1 ELSE 0),
                                       !.losses = @ + (IF isWinner THEN 0 ELSE 1),
                                       !.matches = @ + 1,
                                       !.ts = t]]

HistRow(mid, rnd, t, a, b, w, res) ==
  [mid |-> mid, round |-> rnd, table |-> t, id1 |-> a, id2 |-> b,
   winner |-> w, result |-> res]

\* row of the in-progress sheet holding the player (first match), 0 if none
FindMatchRow(ip, id) ==
  LET hit == {i \in 1..Len(ip) : ip[i].id1 = id \/ ip[i].id2 = id}
  IN  IF hit = {} THEN 0 ELSE Min(hit)

\* variant of OpponentIn that returns the player asked about
OpponentInSelf(row, id) == id

\* the other player of the row
OpponentIn(row, id) == IF row.id1 = id THEN row.id2 ELSE row.id1

\* variant of Failed that has cleared the player cells of the sheet before
\* returning the error
FailedAfterClear(pl, hist, ip) ==
  [ok |-> FALSE, players |-> pl, history |-> hist,
   inProgress |-> [i \in 1..Len(ip) |-> [ip[i] EXCEPT !.id1 = 0, !.id2 = 0]],
   run |-> NoRun]

\* an early return of updatePlayerState: nothing has been written
Failed(pl, hist, ip) ==
  [ok |-> FALSE, players |-> pl, history |-> hist, inProgress |-> ip, run |-> NoRun]

\* variant of readTableNumber that reads an empty cell instead of throwing
readTableNumberNoThrow(ip, matchRow) == IF matchRow = 0 THEN 0 ELSE ip[matchRow].table

\* getRange(matchRow, 1).getValue() of the recording step: row -1 (here 0)
\* is out of the sheet and getRange throws; -1 stands for the throw
readTableNumber(ip, matchRow) == IF matchRow = 0 THEN -1 ELSE ip[matchRow].table

\* updatePlayerState, steps 1 to 8.  record = options.recordResult.
\* With recordResult and a target that is not IN_PROGRESS, matchRow is -1 and
\* getRange(-1, 1) throws before anything is written.
updatePlayerState(pl, hist, ip, mt, target, newStatus, opponentNewStatus, record, isTargetWinner, t) ==
  LET k == IdxOf(pl, target)
      currentStatus == pl[k].status
      inMatch == currentStatus = IN_PROGRESS
      matchRow == IF inMatch THEN FindMatchRow(ip, target) ELSE 0
      opponentId == IF matchRow = 0 THEN 0 ELSE OpponentIn(ip[matchRow], target)
      opponentDropped == StatusOf(pl, opponentId) = DROPPED
      winner == IF isTargetWinner THEN target ELSE opponentId
      loser == IF isTargetWinner THEN opponentId ELSE target
      hist1 == IF record
               THEN Append(hist, HistRow(Len(hist) + 1, 0, readTableNumber(ip, matchRow),
                                         winner, loser, winner, "win"))
               ELSE hist
      pl1 == IF record
             THEN updatePlayerMatchStats(updatePlayerMatchStats(pl, winner, TRUE, t),
                                         loser, FALSE, t)
             ELSE pl
      ip1 == IF inMatch /\ matchRow # 0
             THEN [ip EXCEPT ![matchRow] = [@ EXCEPT !.id1 = 0, !.id2 = 0]]
             ELSE ip
      pl2 == [i \in 1..Len(pl1) |->
                IF pl1[i].id = target THEN [pl1[i] EXCEPT !.status = newStatus]
                ELSE IF pl1[i].id = opponentId
                     THEN [pl1[i] EXCEPT !.status = opponentNewStatus]
                     ELSE pl1[i]]
      m == AutoMatch(pl2, hist1, ip1, mt)
  IN  IF k = 0 THEN Failed(pl, hist, ip)
      ELSE IF currentStatus = DROPPED THEN Failed(pl, hist, ip)
      ELSE IF inMatch /\ opponentId = 0 THEN Failed(pl, hist, ip)
      ELSE IF inMatch /\ opponentDropped /\ opponentNewStatus # DROPPED
           THEN Failed(pl, hist, ip)
      ELSE IF record /\ readTableNumber(ip, matchRow) = -1 THEN Failed(pl, hist, ip)
      ELSE [ok |-> TRUE, players |-> m.players, history |-> hist1,
            inProgress |-> m.inProgress, run |-> m.run]

\* correctMatchResult, steps 5 and 6: swap the two players of the history row
\* and move one win / one loss, clamped at zero
SwapHistory(hist, row) ==
  [hist EXCEPT ![row] = [@ EXCEPT !.id1 = hist[row].id2,
                                  !.id2 = hist[row].id1,
                                  !.winner = hist[row].id2]]

ClampDec(n) == IF n - 1 < 0 THEN 0 ELSE n - 1

\* variant of CorrectStats that also counts the corrected match as played again
CorrectStatsAndMatches(pl, currentWinnerId, currentLoserId) ==
  [i \in 1..Len(pl) |->
     IF pl[i].id = currentWinnerId
     THEN [pl[i] EXCEPT !.wins = ClampDec(@), !.losses = @ + 1, !.matches = @ + 1]
     ELSE IF pl[i].id = currentLoserId
          THEN [pl[i] EXCEPT !.wins = @ + 1, !.losses = ClampDec(@), !.matches = @ + 1]
          ELSE pl[i]]

CorrectStats(pl, currentWinnerId, currentLoserId) ==
  [i \in 1..Len(pl) |->
     IF pl[i].id = currentWinnerId
     THEN [pl[i] EXCEPT !.wins = ClampDec(@), !.losses = @ + 1]
     ELSE IF pl[i].id = currentLoserId
          THEN [pl[i] EXCEPT !.wins = @ + 1, !.losses = ClampDec(@)]
          ELSE pl[i]]

FindHistoryRow(hist, mid) ==
  LET hit == {i \in 1..Len(hist) : hist[i].mid = mid}
  IN  IF hit = {} THEN 0 ELSE Min(hit)

\* ================================================================= Swiss
\* opponentsMap of matchPlayersSwiss: byes and half-empty rows are skipped
opponentsMap(hist, id) ==
  LET real == {j \in 1..Len(hist) :
                 hist[j].result # "Bye" /\ hist[j].id1 # 0 /\ hist[j].id2 # 0}
  IN  {hist[j].id2 : j \in {i \in real : hist[i].id1 = id}}
        \cup {hist[j].id1 : j \in {i \in real : hist[i].id2 = id}}

\* calculateOpponentWinRate, the set it collects from the history: rows with
\* result "Bye" or without a second player are skipped
opponents(hist, playerId) ==
  LET real == {j \in 1..Len(hist) : ~(hist[j].result = "Bye" \/ hist[j].id2 = 0)}
  IN  {hist[j].id2 : j \in {i \in real : hist[i].id1 = playerId}}
        \cup {hist[j].id1 : j \in {i \in real : hist[i].id1 # playerId
                                                 /\ hist[i].id2 = playerId}}

\* calculateOpponentWinRate, the opponents whose win rate enters the average
\* (those counted by opponentCount): on the players sheet, with a match played
countedOpponents(pl, hist, playerId) ==
  {o \in opponents(hist, playerId) : IdxOf(pl, o) # 0 /\ pl[IdxOf(pl, o)].matches > 0}

\* comparator of activePlayers: points, then wins, descending; then matches
ActiveBefore(a, b) ==
  \/ a.points > b.points
  \/ a.points = b.points /\ a.wins > b.wins
  \/ a.points = b.points /\ a.wins = b.wins /\ a.matches < b.matches

InsertActive(x, s) ==
  LET before == {k \in 1..Len(s) : ActiveBefore(x, s[k])}
      pos == IF before = {} THEN Len(s) + 1 ELSE Min(before)
  IN  [i \in 1..(Len(s) + 1) |->
         IF i < pos THEN s[i] ELSE IF i = pos THEN x ELSE s[i - 1]]

RECURSIVE SortActive(_)
SortActive(s) ==
  IF s = <<>> THEN <<>>
  ELSE InsertActive(s[Len(s)], SortActive(SubSeq(s, 1, Len(s) - 1)))

\* variant of activePlayers that does not filter on the status
activePlayersAnyStatus(pl) == SortActive(pl)

activePlayers(pl) == SortActive(SelectSeq(pl, LAMBDA r : r.status = ACTIVE))

\* variant of byePlayer that takes the head of the sorted list
byePlayerFirst(active) == IF Len(active) % 2 = 1 THEN active[1].id ELSE 0

\* odd number of active players: the last of the sorted list is popped
byePlayer(active) == IF Len(active) % 2 = 1 THEN active[Len(active)].id ELSE 0

\* variant of availablePlayers that keeps the bye player in the pool
availablePlayersAll(active) == active

availablePlayers(active) ==
  IF Len(active) % 2 = 1 THEN SubSeq(active, 1, Len(active) - 1) ELSE active

Swap(s, j, k) == [s EXCEPT ![j] = s[k], ![k] = s[j]]

\* the inner loop of the shuffle: j from the end of the group down to lo + 1,
\* k = lo + floor(random * (j - lo + 1)) is any index of lo..j
RECURSIVE ShuffleGroup(_, _, _)
ShuffleGroup(s, lo, j) ==
  IF j <= lo THEN {s}
  ELSE UNION {ShuffleGroup(Swap(s, j, k), lo, j - 1) : k \in lo..j}

\* variant of ShuffleFrom that shuffles the whole list as one group
ShuffleWhole(s, lo) == ShuffleGroup(s, lo, Len(s))

\* the outer loop: one group per run of equal points, starting at lo
RECURSIVE ShuffleFrom(_, _)
ShuffleFrom(s, lo) ==
  IF lo > Len(s) THEN {s}
  ELSE LET same == {i \in lo..Len(s) :
                      \A k \in lo..i : s[k].points = s[lo].points}
           hi == Max0(same)
       IN  UNION {ShuffleFrom(t, hi + 1) : t \in ShuffleGroup(s, lo, hi)}

\* the outcomes of the shuffle of remainingPlayers
remainingPlayers(pl) == ShuffleFrom(availablePlayers(activePlayers(pl)), 1)

\* the pairing loop: it stops at the first player without a fresh partner
RECURSIVE SwissPairLoop(_, _)
SwissPairLoop(remaining, hist) ==
  IF Len(remaining) < 2 THEN <<>>
  ELSE LET p1 == Head(remaining)
           rest == Tail(remaining)
           k == FirstFresh(rest, opponentsMap(hist, p1))
       IN  IF k # 0
           THEN <<(<<p1, rest[k]>>)>> \o SwissPairLoop(RemoveAt(rest, k), hist)
           ELSE <<>>

RoundRow(rnd, t, a, b, res) ==
  [round |-> rnd, table |-> t, id1 |-> a, id2 |-> b, result |-> res]

\* variant of recordByeResult that credits the points but no win
recordByeResultPointsOnly(pl, hist, id, rnd, t) ==
  LET k == IdxOf(pl, id)
  IN  IF k = 0 THEN [players |-> pl, history |-> hist]
      ELSE [players |-> [pl EXCEPT ![k] = [@ EXCEPT !.points = @ + POINTS_BYE,
                                                    !.matches = @ + 1]],
            history |-> Append(hist, HistRow(Len(hist) + 1, rnd, t, id, 0, id, "Bye"))]

\* recordByeResult: bye points, a win and a match for the player, a history
\* row.  The timestamp column is read by no Swiss operation and is not kept.
recordByeResult(pl, hist, id, rnd, t) ==
  LET k == IdxOf(pl, id)
  IN  IF k = 0 THEN [players |-> pl, history |-> hist]
      ELSE [players |-> [pl EXCEPT ![k] = [@ EXCEPT !.points = @ + POINTS_BYE,
                                                    !.wins = @ + 1,
                                                    !.matches = @ + 1]],
            history |-> Append(hist, HistRow(Len(hist) + 1, rnd, t, id, 0, id, "Bye"))]

\* matchPlayersSwiss for one outcome of the shuffle
matchPlayersSwiss(pl, hist, ip, roundNumber, remaining) ==
  LET active == activePlayers(pl)
      bye == byePlayer(active)
      matches == SwissPairLoop(Ids(remaining), hist)
      rows == [i \in 1..Len(matches) |->
                 RoundRow(roundNumber, MIN_TABLE_NUMBER + i - 1,
                          matches[i][1], matches[i][2], "")]
      tableNumber == MIN_TABLE_NUMBER + Len(matches)
      rb == recordByeResult(pl, hist, bye, roundNumber, tableNumber)
      did == [pairs |-> matches, elig |-> WithStatus(pl, ACTIVE),
              pool |-> Range(Ids(remaining)), order |-> Ids(remaining), bye |-> bye,
              unseated |-> <<>>, seats |-> <<>>, ran |-> TRUE]
  IN  IF Len(active) < 2
      THEN [players |-> pl, history |-> hist, inProgress |-> ip, count |-> 0,
            run |-> [NoRun EXCEPT !.ran = TRUE]]
      ELSE IF bye = 0
      THEN [players |-> pl, history |-> hist, inProgress |-> ip \o rows,
            count |-> Len(matches), run |-> did]
      ELSE [players |-> rb.players, history |-> rb.history,
            inProgress |-> Append(ip \o rows,
                                  RoundRow(roundNumber, tableNumber, bye, 0, "Bye")),
            count |-> Len(matches) + 1, run |-> did]

\* variant of isRoundComplete that does not look at the rows
isRoundCompleteAlways(ip) == TRUE

\* variant of isRoundComplete that takes a row without a second player for an
\* unfinished match
isRoundCompleteNoBye(ip) ==
  \A i \in 1..Len(ip) : ~(ip[i].id1 # 0 /\ (ip[i].result = "" \/ ip[i].id2 = 0))

\* isRoundComplete: no row with a player and an empty result
isRoundComplete(ip) == \A i \in 1..Len(ip) : ~(ip[i].id1 # 0 /\ ip[i].result = "")

\* the lookup of recordWinLoss / recordDraw: first row holding the player and
\* somebody else, 0 if none; the result column is not read
FindRoundRow(ip, id) ==
  LET hit == {i \in 1..Len(ip) : \/ ip[i].id1 = id /\ ip[i].id2 # 0
                                 \/ ip[i].id2 = id /\ ip[i].id1 # 0}
  IN  IF hit = {} THEN 0 ELSE Min(hit)

\* updatePlayerStats: result is "win", "loss" or "draw"
updatePlayerStats(pl, id, result) ==
  LET k == IdxOf(pl, id)
      pointsToAdd == IF result = "win" THEN POINTS_WIN
                     ELSE IF result = "loss" THEN POINTS_LOSS ELSE POINTS_DRAW
  IN  IF k = 0 THEN pl
      ELSE [pl EXCEPT ![k] = [@ EXCEPT !.points = @ + pointsToAdd,
                                       !.wins = @ + (IF result = "win" THEN 1 ELSE 0),
                                       !.losses = @ + (IF result = "win" THEN 0 ELSE 1),
                                       !.matches = @ + 1]]

\* variant of recordMatchResult that empties the player cells of the row, as
\* the continuous variant does
recordMatchResultClearing(pl, hist, ip, player1Id, player2Id, matchRow, resultType) ==
  IF matchRow > Len(ip)
  THEN [ok |-> FALSE, players |-> pl, history |-> hist, inProgress |-> ip]
  ELSE [ok |-> TRUE,
        players |-> updatePlayerStats(updatePlayerStats(pl, player1Id, "win"),
                                      player2Id, "loss"),
        history |-> Append(hist, HistRow(Len(hist) + 1, ip[matchRow].round,
                                         ip[matchRow].table, player1Id, player2Id,
                                         player1Id, resultType)),
        inProgress |-> [ip EXCEPT ![matchRow] = [@ EXCEPT !.id1 = 0, !.id2 = 0,
                                                          !.result = resultType]]]

\* recordMatchResult: the row at the index found by the prologue is trusted.
\* An index past the data makes matchData[matchRow] undefined: TypeError
\* before any write.
recordMatchResult(pl, hist, ip, player1Id, player2Id, matchRow, resultType) ==
  LET row == ip[matchRow]
      isWin == resultType = "win"
  IN  IF matchRow > Len(ip)
      THEN [ok |-> FALSE, players |-> pl, history |-> hist, inProgress |-> ip]
      ELSE [ok |-> TRUE,
            players |-> updatePlayerStats(
                          updatePlayerStats(pl, player1Id,
                                            IF isWin THEN "win" ELSE "draw"),
                          player2Id, IF isWin THEN "loss" ELSE "draw"),
            history |-> Append(hist, HistRow(Len(hist) + 1, row.round, row.table,
                                             player1Id, player2Id,
                                             IF isWin THEN player1Id ELSE 0,
                                             resultType)),
            inProgress |-> [ip EXCEPT ![matchRow] = [@ EXCEPT !.result = resultType]]]

\* ----------------------------------------------------- operation protocol
Op(name, a, k) == [name |-> name, a |-> a, b |-> 0, r |-> 0, k |-> k, p |-> 0]

\* acquireLock: tryLock succeeds when the lock is free or already ours
acquireLock(p) == lock \in {0, p}

\* an idle operator starts an operation and obtains the lock
Begin(p) ==
  variant = "continuous" /\ pc[p] = "idle" /\ steps < MaxOps /\ acquireLock(p)

\* variant of LockTimeout for a lock request without a time limit
LockTimeoutNever(p) == FALSE /\ UNCHANGED vars

\* variant of LockTimeout in which the operation has cleared the round sheet
\* before asking for the lock
LockTimeoutAfterClear(p) ==
  /\ pc[p] \in {"idle", "wait"}
  /\ ~acquireLock(p)
  /\ pc' = [pc EXCEPT ![p] = "out"]
  /\ op' = [NoOp EXCEPT !.p = p]
  /\ ret' = "timeout"
  /\ run' = NoRun
  /\ local' = [local EXCEPT ![p] = NoLocal]
  /\ inProgress' = <<>>
  /\ UNCHANGED <<variant, players, history, maxTables, currentRound,
                 tournamentStatus, clock, lock, steps>>

\* acquireLock throws after LOCK_TIMEOUT; catch, then finally releaseLock(null)
LockTimeout(p) ==
  /\ pc[p] \in {"idle", "wait"}
  /\ ~acquireLock(p)
  /\ pc' = [pc EXCEPT ![p] = "out"]
  /\ op' = [NoOp EXCEPT !.p = p]
  /\ ret' = "timeout"
  /\ run' = NoRun
  /\ local' = [local EXCEPT ![p] = NoLocal]
  /\ UNCHANGED <<variant, players, history, inProgress, maxTables, currentRound,
                 tournamentStatus, clock, lock, steps>>

\* variant of releaseLock called with a null lock object: nothing is released
releaseLockNull(p) ==
  /\ pc[p] \in {"ret", "out"}
  /\ lock' = lock
  /\ pc' = [pc EXCEPT ![p] = "idle"]
  /\ op' = NoOp
  /\ ret' = ""
  /\ run' = NoRun
  /\ UNCHANGED local
  /\ UNCHANGED <<variant, players, history, inProgress, maxTables, currentRound,
                 tournamentStatus, clock, steps>>

\* the outermost finally block: releaseLock, no effect when not held
releaseLock(p) ==
  /\ pc[p] \in {"ret", "out"}
  /\ lock' = IF lock = p THEN 0 ELSE lock
  /\ pc' = [pc EXCEPT ![p] = "idle"]
  /\ op' = NoOp
  /\ ret' = ""
  /\ run' = NoRun
  /\ UNCHANGED local
  /\ UNCHANGED <<variant, players, history, inProgress, maxTables, currentRound,
                 tournamentStatus, clock, steps>>

\* end of a locked body that ran operation o with outcome ok and pairing run
\* r; a nested matchPlayers has released the lock in its own finally block
EndBody(p, o, ok, r) ==
  /\ pc' = [pc EXCEPT ![p] = "ret"]
  /\ op' = [o EXCEPT !.p = p]
  /\ ret' = IF ok THEN "ok" ELSE "fail"
  /\ run' = r
  /\ lock' = IF r.ran THEN 0 ELSE p
  /\ local' = [local EXCEPT ![p] = NoLocal]
  /\ steps' = steps + 1
  /\ UNCHANGED variant

SwissVars == <<currentRound, tournamentStatus>>

\* ------------------------------------------------- continuous operations
\* registerPlayer (continuous): id from the last row number, then auto pairing
RegisterPlayer(p) ==
  /\ Begin(p)
  /\ Len(players) < MaxPlayers
  /\ \/ /\ EndBody(p, Op("registerPlayer", 0, "cancel"), FALSE, NoRun)
        /\ UNCHANGED <<players, history, inProgress, clock>>
     \/ \E t \in Now :
          LET newId == Len(players) + 1
              m == AutoMatch(Append(players, PlayerRow(newId, WAITING, t)),
                             history, inProgress, maxTables)
          IN  /\ players' = m.players
              /\ inProgress' = m.inProgress
              /\ clock' = t
              /\ EndBody(p, Op("registerPlayer", newId, ""), TRUE, m.run)
              /\ UNCHANGED history
  /\ UNCHANGED <<maxTables, SwissVars>>

\* registerTestPlayers: n players at once (TEST_CONFIG.NUM_PLAYERS, set by
\* the operator), ids after the largest id
RegisterTestPlayers(p) ==
  /\ Begin(p)
  /\ \E n \in 2..(MaxPlayers - Len(players)), t \in Now :
       LET maxIdNumber == Max0({players[i].id : i \in 1..Len(players)})
           added == [i \in 1..n |-> PlayerRow(maxIdNumber + i, WAITING, t)]
           m == AutoMatch(players \o added, history, inProgress, maxTables)
       IN  /\ players' = m.players
           /\ inProgress' = m.inProgress
           /\ clock' = t
           /\ EndBody(p, Op("registerTestPlayers", n, ""), TRUE, m.run)
  /\ UNCHANGED <<history, maxTables, SwissVars>>

UpdateStep(p, name, id, newStatus, record) ==
  \E t \in Now :
    LET u == updatePlayerState(players, history, inProgress, maxTables,
                               id, newStatus, WAITING, record, record, t)
    IN  /\ players' = u.players
        /\ history' = u.history
        /\ inProgress' = u.inProgress
        /\ clock' = IF u.ok /\ record THEN t ELSE clock
        /\ EndBody(p, Op(name, id, ""), u.ok, u.run)
        /\ UNCHANGED <<maxTables, SwissVars>>

\* recordResult(winnerId)
RecordResult(p) ==
  /\ Begin(p)
  /\ Len(history) < MaxHistory
  /\ \E id \in 1..MaxPlayers : UpdateStep(p, "recordResult", id, WAITING, TRUE)

\* dropoutPlayer (continuous), through changePlayerStatus
DropoutPlayer(p) ==
  /\ Begin(p)
  /\ \E id \in 1..MaxPlayers : UpdateStep(p, "dropoutPlayer", id, DROPPED, FALSE)

\* setPlayerResting, through changePlayerStatus
SetPlayerResting(p) ==
  /\ Begin(p)
  /\ \E id \in 1..MaxPlayers : UpdateStep(p, "setPlayerResting", id, RESTING, FALSE)

ReturnPlayerFromResting(p) ==
  /\ Begin(p)
  /\ \E id \in 1..MaxPlayers :
       \/ /\ StatusOf(players, id) # RESTING
          /\ EndBody(p, Op("returnPlayerFromResting", id, ""), FALSE, NoRun)
          /\ UNCHANGED <<players, inProgress>>
       \/ /\ StatusOf(players, id) = RESTING
          /\ EndBody(p, Op("returnPlayerFromResting", id, "cancel"), FALSE, NoRun)
          /\ UNCHANGED <<players, inProgress>>
       \/ /\ StatusOf(players, id) = RESTING
          /\ LET m == AutoMatch(SetStatus(players, {id}, WAITING),
                                history, inProgress, maxTables)
             IN  /\ players' = m.players
                 /\ inProgress' = m.inProgress
                 /\ EndBody(p, Op("returnPlayerFromResting", id, ""), TRUE, m.run)
  /\ UNCHANGED <<history, clock, maxTables, SwissVars>>

\* correctMatchResult (both variants), for match id mid
CorrectMatchResult(p) ==
  /\ Begin(p)
  /\ \E mid \in 1..(MaxHistory + 1) :
       LET matchRow == FindHistoryRow(history, mid)
       IN  \/ /\ matchRow = 0
              /\ EndBody(p, Op("correctMatchResult", mid, ""), FALSE, NoRun)
              /\ UNCHANGED <<players, history>>
           \/ /\ matchRow # 0
              /\ EndBody(p, Op("correctMatchResult", mid, "cancel"), FALSE, NoRun)
              /\ UNCHANGED <<players, history>>
           \/ /\ matchRow # 0
              /\ history' = SwapHistory(history, matchRow)
              /\ players' = CorrectStats(players, history[matchRow].id1,
                                         history[matchRow].id2)
              /\ EndBody(p, Op("correctMatchResult", mid, ""), TRUE, NoRun)
  /\ UNCHANGED <<inProgress, clock, maxTables, SwissVars>>

\* configureMaxTables (on the menu of both variants): no lock, any value of
\* 1..200
ConfigureMaxTables ==
  /\ \E n \in 1..MaxConfigTables : maxTables' = n
  /\ maxTables' # maxTables
  /\ UNCHANGED <<variant, players, history, inProgress, SwissVars, clock, lock, pc, op,
                 ret, run, local, steps>>

\* ------------------------------------------------------ Swiss operations
BeginSwiss(p) ==
  variant = "swiss" /\ pc[p] = "idle" /\ steps < MaxSwissOps /\ acquireLock(p)

\* registerPlayer (Swiss) up to acquireLock: the tournament status is read
\* without the lock; FINISHED ends the call with an alert
RegisterPrologue(p) ==
  /\ variant = "swiss"
  /\ pc[p] = "idle"
  /\ tournamentStatus # "FINISHED"
  /\ Len(players) < MaxPlayers
  /\ pc' = [pc EXCEPT ![p] = "wait"]
  /\ local' = [local EXCEPT ![p] = [NoLocal EXCEPT !.type = "register"]]
  /\ UNCHANGED <<variant, players, history, inProgress, maxTables, SwissVars, clock, lock,
                 op, ret, run, steps>>

\* variant of registerPlayer (Swiss) that numbers the new player after the
\* players still in the tournament
SwissRegisterPlayerCountingActive(p) ==
  /\ pc[p] = "wait"
  /\ local[p].type = "register"
  /\ steps < MaxSwissOps
  /\ acquireLock(p)
  /\ \/ /\ EndBody(p, Op("registerPlayer", 0, "cancel"), FALSE, NoRun)
        /\ UNCHANGED players
     \/ LET newIdNumber == Len(activePlayers(players)) + 1
        IN  /\ Len(players) < MaxPlayers
            /\ players' = Append(players, PlayerRow(newIdNumber, ACTIVE, 0))
            /\ EndBody(p, Op("registerPlayer", newIdNumber, ""), TRUE, NoRun)
  /\ UNCHANGED <<history, inProgress, clock, maxTables, SwissVars>>

\* registerPlayer (Swiss), the locked part: id after the largest id, ACTIVE,
\* no pairing
SwissRegisterPlayer(p) ==
  /\ pc[p] = "wait"
  /\ local[p].type = "register"
  /\ steps < MaxSwissOps
  /\ acquireLock(p)
  /\ \/ /\ EndBody(p, Op("registerPlayer", 0, "cancel"), FALSE, NoRun)
        /\ UNCHANGED players
     \/ LET maxIdNumber == Max0({players[i].id : i \in 1..Len(players)})
        IN  /\ Len(players) < MaxPlayers
            /\ players' = Append(players, PlayerRow(maxIdNumber + 1, ACTIVE, 0))
            /\ EndBody(p, Op("registerPlayer", maxIdNumber + 1, ""), TRUE, NoRun)
  /\ UNCHANGED <<history, inProgress, clock, maxTables, SwissVars>>

\* dropoutPlayer (Swiss): the status cell is set to DROPPED
SwissDropoutPlayer(p) ==
  /\ tournamentStatus # "FINISHED"
  /\ BeginSwiss(p)
  /\ \E id \in 1..MaxPlayers :
       \/ /\ IdxOf(players, id) = 0
          /\ EndBody(p, Op("dropoutPlayer", id, ""), FALSE, NoRun)
          /\ UNCHANGED players
       \/ /\ IdxOf(players, id) # 0
          /\ EndBody(p, Op("dropoutPlayer", id, "cancel"), FALSE, NoRun)
          /\ UNCHANGED players
       \/ /\ IdxOf(players, id) # 0
          /\ players' = SetStatus(players, {id}, DROPPED)
          /\ EndBody(p, Op("dropoutPlayer", id, ""), TRUE, NoRun)
  /\ UNCHANGED <<history, inProgress, clock, maxTables, SwissVars>>

\* startNewRound: guards, then clear the sheet, advance the round counter and
\* pair; the nested matchPlayersSwiss releases the lock in its finally block
StartNewRound(p) ==
  /\ BeginSwiss(p)
  /\ currentRound < MaxRounds
  /\ Len(history) < MaxHistory
  /\ \/ /\ \/ currentRound > 0 /\ ~isRoundComplete(inProgress)
           \/ Len(activePlayers(players)) < 2
        /\ EndBody(p, Op("startNewRound", currentRound, ""), FALSE, NoRun)
        /\ UNCHANGED <<players, history, inProgress, currentRound>>
     \/ /\ ~(currentRound > 0 /\ ~isRoundComplete(inProgress))
        /\ Len(activePlayers(players)) >= 2
        /\ \E remaining \in remainingPlayers(players) :
             LET newRound == currentRound + 1
                 m == matchPlayersSwiss(players, history, <<>>, newRound, remaining)
             IN  /\ players' = m.players
                 /\ history' = m.history
                 /\ inProgress' = m.inProgress
                 /\ currentRound' = newRound
                 /\ EndBody(p, Op("startNewRound", newRound, ""), m.count # 0, m.run)
  /\ UNCHANGED <<clock, maxTables, tournamentStatus>>

\* recordWinLoss / recordDraw up to the confirmation: the row is looked up
\* without the lock
RecordPrologue(p) ==
  /\ variant = "swiss"
  /\ pc[p] = "idle"
  /\ \E id \in 1..MaxPlayers, type \in {"win", "draw"} :
       LET matchRow == FindRoundRow(inProgress, id)
       IN  /\ matchRow # 0
           /\ local' = [local EXCEPT ![p] =
                          [a |-> id, b |-> OpponentIn(inProgress[matchRow], id),
                           row |-> matchRow, type |-> type]]
  /\ pc' = [pc EXCEPT ![p] = "wait"]
  /\ UNCHANGED <<variant, players, history, inProgress, maxTables, SwissVars, clock, lock,
                 op, ret, run, steps>>

\* the operator answers NO to the confirmation
RecordCancel(p) ==
  /\ pc[p] = "wait"
  /\ local[p].type \in {"win", "draw"}
  /\ pc' = [pc EXCEPT ![p] = "idle"]
  /\ local' = [local EXCEPT ![p] = NoLocal]
  /\ UNCHANGED <<variant, players, history, inProgress, maxTables, SwissVars, clock, lock,
                 op, ret, run, steps>>

\* recordMatchResult, called with what the prologue found
RecordMatchResult(p) ==
  /\ pc[p] = "wait"
  /\ local[p].type \in {"win", "draw"}
  /\ steps < MaxSwissOps
  /\ acquireLock(p)
  /\ Len(history) < MaxHistory
  /\ LET l == local[p]
         r == recordMatchResult(players, history, inProgress, l.a, l.b, l.row, l.type)
         name == IF l.type = "win" THEN "recordWinLoss" ELSE "recordDraw"
     IN  /\ players' = r.players
         /\ history' = r.history
         /\ inProgress' = r.inProgress
         /\ EndBody(p, [Op(name, l.a, "") EXCEPT !.b = l.b, !.r = l.row], r.ok, NoRun)
  /\ UNCHANGED <<clock, maxTables, SwissVars>>

\* correctMatchResult (Swiss), for match id mid
SwissCorrectMatchResult(p) ==
  /\ BeginSwiss(p)
  /\ \E mid \in 1..(MaxHistory + 1) :
       LET matchRow == FindHistoryRow(history, mid)
       IN  \/ /\ matchRow = 0
              /\ EndBody(p, Op("correctMatchResult", mid, ""), FALSE, NoRun)
              /\ UNCHANGED <<players, history>>
           \/ /\ matchRow # 0
              /\ EndBody(p, Op("correctMatchResult", mid, "cancel"), FALSE, NoRun)
              /\ UNCHANGED <<players, history>>
           \/ /\ matchRow # 0
              /\ history' = SwapHistory(history, matchRow)
              /\ players' = CorrectStats(players, history[matchRow].id1,
                                         history[matchRow].id2)
              /\ EndBody(p, Op("correctMatchResult", mid, ""), TRUE, NoRun)
  /\ UNCHANGED <<inProgress, clock, maxTables, SwissVars>>

\* finishTournament, as the specification describes it: it fails while the
\* current round is incomplete, otherwise the tournament status becomes
\* FINISHED
FinishTournament(p) ==
  /\ BeginSwiss(p)
  /\ tournamentStatus # "FINISHED"
  /\ \/ /\ currentRound > 0 /\ ~isRoundComplete(inProgress)
        /\ EndBody(p, Op("finishTournament", currentRound, ""), FALSE, NoRun)
        /\ UNCHANGED tournamentStatus
     \/ /\ ~(currentRound > 0 /\ ~isRoundComplete(inProgress))
        /\ tournamentStatus' = "FINISHED"
        /\ EndBody(p, Op("finishTournament", currentRound, ""), TRUE, NoRun)
  /\ UNCHANGED <<players, history, inProgress, clock, maxTables, currentRound>>

Start ==
  /\ players = <<>>
  /\ history = <<>>
  /\ inProgress = <<>>
  /\ maxTables = MAX_TABLES
  /\ currentRound = 0
  /\ tournamentStatus = "IN_PROGRESS"
  /\ clock = 0
  /\ lock = 0
  /\ pc = [p \in Procs |-> "idle"]
  /\ op = NoOp
  /\ ret = ""
  /\ run = NoRun
  /\ local = [p \in Procs |-> NoLocal]
  /\ steps = 0

\* either script is bound to the spreadsheet; setupSheets has run
Init == variant \in {"continuous", "swiss"} /\ Start

Next ==
  \/ \E p \in Procs : RegisterPlayer(p)
  \/ \E p \in Procs : RegisterTestPlayers(p)
  \/ \E p \in Procs : RecordResult(p)
  \/ \E p \in Procs : DropoutPlayer(p)
  \/ \E p \in Procs : SetPlayerResting(p)
  \/ \E p \in Procs : ReturnPlayerFromResting(p)
  \/ \E p \in Procs : CorrectMatchResult(p)
  \/ ConfigureMaxTables
  \/ \E p \in Procs : RegisterPrologue(p)
  \/ \E p \in Procs : SwissRegisterPlayer(p)
  \/ \E p \in Procs : SwissDropoutPlayer(p)
  \/ \E p \in Procs : StartNewRound(p)
  \/ \E p \in Procs : RecordPrologue(p)
  \/ \E p \in Procs : RecordCancel(p)
  \/ \E p \in Procs : RecordMatchResult(p)
  \/ \E p \in Procs : SwissCorrectMatchResult(p)
  \/ \E p \in Procs : FinishTournament(p)
  \/ \E p \in Procs : LockTimeout(p)
  \/ \E p \in Procs : releaseLock(p)

Spec == Init /\ [][Next]_vars

\* ------------------------------------------- one operator, whole tournament
\* The Swiss script run by a single operator through a tournament of up to
\* MaxRounds rounds: the counter of operations starts MaxSeqOps below the
\* limit of the guards.
SeqInit ==
  /\ variant = "swiss"
  /\ players = <<>>
  /\ history = <<>>
  /\ inProgress = <<>>
  /\ maxTables = MAX_TABLES
  /\ currentRound = 0
  /\ tournamentStatus = "IN_PROGRESS"
  /\ clock = 0
  /\ lock = 0
  /\ pc = [p \in Procs |-> "idle"]
  /\ op = NoOp
  /\ ret = ""
  /\ run = NoRun
  /\ local = [p \in Procs |-> NoLocal]
  /\ steps = MaxSwissOps - MaxSeqOps

\* The operator registers players between rounds, starts a round when the
\* last one is complete, and records every match once, with a winner.
SeqNext ==
  \/ RegisterPrologue(1) /\ isRoundComplete(inProgress)
  \/ SwissRegisterPlayer(1) /\ ret' = "ok"
  \/ StartNewRound(1) /\ run'.ran
  \/ RecordPrologue(1) /\ local'[1].type = "win" /\ inProgress[local'[1].row].result = ""
  \/ RecordMatchResult(1)
  \/ releaseLock(1)

SeqSpec == SeqInit /\ [][SeqNext]_vars

\* ------------------------------------------ two operators, one of them slow
\* The Swiss script run by two operators: operator 2 runs the tournament,
\* operator 1 only records results, and may leave the confirmation dialog of
\* recordWinLoss / recordDraw open for as long as it likes.
RaceInit ==
  /\ variant = "swiss"
  /\ players = <<>>
  /\ history = <<>>
  /\ inProgress = <<>>
  /\ maxTables = MAX_TABLES
  /\ currentRound = 0
  /\ tournamentStatus = "IN_PROGRESS"
  /\ clock = 0
  /\ lock = 0
  /\ pc = [p \in Procs |-> "idle"]
  /\ op = NoOp
  /\ ret = ""
  /\ run = NoRun
  /\ local = [p \in Procs |-> NoLocal]
  /\ steps = MaxSwissOps - MaxRaceOps

RaceNext ==
  \/ RegisterPrologue(2)
  \/ SwissRegisterPlayer(2)
  \/ StartNewRound(2)
  \/ \E p \in Procs : RecordPrologue(p)
  \/ \E p \in Procs : RecordCancel(p)
  \/ \E p \in Procs : RecordMatchResult(p)
  \/ \E p \in Procs : releaseLock(p)

RaceSpec == RaceInit /\ [][RaceNext]_vars

\* ================================================================ claims
Played(hist, a, b) ==
  \E i \in 1..Len(hist) :
    hist[i].result # "Bye" /\ {hist[i].id1, hist[i].id2} = {a, b}

\* C1: no pair emitted by matchPlayers or matchPlayersSwiss has a match-history
\* record other than a bye between its two players
C1_NoRematch ==
  \A i \in 1..Len(run.pairs) : ~Played(history, run.pairs[i][1], run.pairs[i][2])

\* C1 witness: a run paired a player who had already played another eligible
\* player
C1_Witness ==
  \E i \in 1..Len(run.pairs) :
    \E q \in run.elig : Played(history, run.pairs[i][1], q)

Occupied(row) == row.id1 # 0

\* C3: no two occupied in-progress rows carry the same table number
C3_TableUnique ==
  \A i, j \in 1..Len(inProgress) :
    (i # j /\ Occupied(inProgress[i]) /\ Occupied(inProgress[j]))
      => inProgress[i].table # inProgress[j].table

\* C3 witness: two rows of the continuous sheet are occupied at once
C3_Witness ==
  /\ variant = "continuous"
  /\ \E i, j \in 1..Len(inProgress) :
       i # j /\ Occupied(inProgress[i]) /\ Occupied(inProgress[j])

PairsOf(id) == {i \in 1..Len(run.pairs) : id \in {run.pairs[i][1], run.pairs[i][2]}}

EligibleStatus == IF variant = "swiss" THEN ACTIVE ELSE WAITING

\* C4: after a pairing run every eligible player is in exactly one pair, or is
\* the bye, or is unmatched with the eligible status; nobody else is in a pair
\* or given the bye
C4_Partition ==
  /\ \A id \in run.elig :
       \/ Cardinality(PairsOf(id)) = 1 /\ run.bye # id
       \/ PairsOf(id) = {} /\ run.bye = id
       \/ PairsOf(id) = {} /\ run.bye # id /\ StatusOf(players, id) = EligibleStatus
  /\ \A i \in 1..Len(run.pairs) : run.pairs[i][1] # run.pairs[i][2]
  /\ PairIds(run.pairs) \subseteq run.elig
  /\ run.bye # 0 => run.bye \in run.elig

\* C4 witness: a run made a pair, left an eligible player out, and a player
\* who was not eligible exists
C4_Witness ==
  /\ run.pairs # <<>>
  /\ run.elig \ (PairIds(run.pairs) \cup {run.bye}) # {}
  /\ \E i \in 1..Len(players) : players[i].id \notin run.elig

\* the step is the locked body of an operation
BodyStep == steps' = steps + 1

\* C2: at most one operation is between a successful acquireLock and its
\* releaseLock at any instant
C2_OneInsideLock == Cardinality({p \in Procs : pc[p] = "ret"}) <= 1

\* C5: a recordWinLoss / recordDraw on a round-sheet row that already holds a
\* result appends no history record and changes no player's statistics
C5_RecordedOnce ==
  [][(/\ BodyStep
      /\ op'.name \in {"recordWinLoss", "recordDraw"}
      /\ op'.r <= Len(inProgress)
      /\ inProgress[op'.r].result # "")
       => (history' = history /\ players' = players)]_vars

\* C6: recordResult naming a player who is not IN_PROGRESS fails, appends no
\* history row and changes no player's statistics or status
C6_RecordNeedsMatch ==
  [][(/\ BodyStep
      /\ op'.name = "recordResult"
      /\ StatusOf(players, op'.a) # IN_PROGRESS)
       => (ret' = "fail" /\ history' = history /\ players' = players)]_vars

\* C6 witness: recordResult named the winner of the last recorded match, whose
\* row had been cleared by that recording, and failed
C6_Witness ==
  /\ op.name = "recordResult"
  /\ ret = "fail"
  /\ history # <<>>
  /\ history[Len(history)].id1 = op.a
  /\ StatusOf(players, op.a) = WAITING

\* C7: the players of a pair that matchPlayers could not seat remain WAITING
C7_UnseatedStayWaiting ==
  \A i \in 1..Len(run.unseated) :
    /\ StatusOf(players, run.unseated[i][1]) = WAITING
    /\ StatusOf(players, run.unseated[i][2]) = WAITING

SeatedIn(ip, m) == {i \in 1..Len(ip) : ip[i].id1 = m[1] /\ ip[i].id2 = m[2]}

\* C8: with an empty history and enough tables, matchPlayers over n waiting
\* players seats n div 2 pairs, each in an occupied row of its own
C8_AllPairsSeated ==
  (/\ variant = "continuous"
   /\ run.ran
   /\ history = <<>>
   /\ maxTables = MAX_TABLES
   /\ Cardinality(run.elig) >= 2)
    => /\ Len(run.pairs) = Cardinality(run.elig) \div 2
       /\ \A i \in 1..Len(run.pairs) :
            Cardinality(SeatedIn(inProgress, run.pairs[i])) = 1

\* C9: a DROPPED player stays DROPPED and is not placed in a pair or given a
\* bye by any later pairing run
C9_DroppedIsTerminal ==
  [][\A i \in 1..Len(players) :
       players[i].status = DROPPED
         => /\ players'[i].status = DROPPED
            /\ BodyStep => players[i].id \notin PairIds(run'.pairs) \cup {run'.bye}]_vars

\* C9 witness: a pairing run made a pair while a DROPPED player was on the sheet
C9_Witness ==
  /\ run.pairs # <<>>
  /\ \E i \in 1..Len(players) :
       players[i].status = DROPPED /\ players[i].id \notin run.elig

WinsPlusLosses(pl, id) ==
  IF IdxOf(pl, id) = 0 THEN 0 ELSE pl[IdxOf(pl, id)].wins + pl[IdxOf(pl, id)].losses

\* C10: correctMatchResult leaves wins + losses unchanged for both players of
\* the corrected record
C10_CorrectionConserves ==
  [][(/\ BodyStep
      /\ op'.name = "correctMatchResult"
      /\ ret' = "ok")
       => LET row == history[FindHistoryRow(history, op'.a)]
          IN  \A id \in {row.id1, row.id2} :
                WinsPlusLosses(players', id) = WinsPlusLosses(players, id)]_vars

\* a player row with the wins and losses columns blanked
SansWinLoss(r) == [r EXCEPT !.wins = 0, !.losses = 0]

\* a history row with the player and winner columns blanked
SansPlayers(h) == [h EXCEPT !.id1 = 0, !.id2 = 0, !.winner = 0]

\* C11: correctMatchResult changes only the player / winner columns of the
\* targeted history row and the wins / losses of its two players; statuses,
\* matches played, points, the in-progress sheet, the table numbers, the round
\* counter and the other history rows are unchanged
C11_CorrectionFrame ==
  [][(BodyStep /\ op'.name = "correctMatchResult")
       => LET k == FindHistoryRow(history, op'.a)
              two == IF k = 0 THEN {} ELSE {history[k].id1, history[k].id2}
          IN  /\ inProgress' = inProgress
              /\ currentRound' = currentRound
              /\ maxTables' = maxTables
              /\ tournamentStatus' = tournamentStatus
              /\ Len(history') = Len(history)
              /\ \A i \in 1..Len(history) :
                    /\ i # k => history'[i] = history[i]
                    /\ SansPlayers(history'[i]) = SansPlayers(history[i])
              /\ Len(players') = Len(players)
              /\ \A i \in 1..Len(players) :
                    /\ players[i].id \notin two => players'[i] = players[i]
                    /\ SansWinLoss(players'[i]) = SansWinLoss(players[i])]_vars

\* C11 witness: a correction went through while a match was on the sheet and
\* the history held another record
C11_Witness ==
  /\ op.name = "correctMatchResult"
  /\ ret = "ok"
  /\ Len(history) >= 2
  /\ \E i \in 1..Len(inProgress) : Occupied(inProgress[i])
  /\ \E i \in 1..Len(players) : players[i].wins + players[i].losses > 0

ByeRows(ip) == {i \in 1..Len(ip) : ip[i].result = "Bye"}

\* C12: matchPlayersSwiss over n >= 2 ACTIVE players produces exactly one bye
\* when n is odd and none when n is even; with odd n the pairing loop runs on
\* exactly n - 1 players, none of them the bye player
C12_ByeParity ==
  (variant = "swiss" /\ run.ran /\ Cardinality(run.elig) >= 2)
    => LET n == Cardinality(run.elig)
       IN  /\ n % 2 = 1 =>
                /\ run.bye \in run.elig
                /\ Cardinality(ByeRows(inProgress)) = 1
                /\ \A i \in ByeRows(inProgress) : inProgress[i].id1 = run.bye
                /\ run.pool = run.elig \ {run.bye}
                /\ Cardinality(run.pool) = n - 1
                /\ run.bye \notin PairIds(run.pairs)
           /\ n % 2 = 0 =>
                /\ run.bye = 0
                /\ ByeRows(inProgress) = {}
                /\ run.pool = run.elig

\* C12 witness: a round was paired over three ACTIVE players while a fourth
\* player was not ACTIVE
C12_Witness ==
  /\ variant = "swiss"
  /\ run.ran
  /\ Cardinality(run.elig) = 3
  /\ Len(players) = 4
  /\ run.bye # 0
  /\ run.pairs # <<>>

\* C13: the bye goes to the lowest-ranked ACTIVE player: no ACTIVE player has
\* fewer points than the recipient, none tied on points has fewer wins, none
\* tied on points and wins has played more matches (statistics as they were
\* when the round was paired)
C13_ByeToLowest ==
  [][(BodyStep /\ run'.bye # 0)
       => LET b == players[IdxOf(players, run'.bye)]
          IN  \A i \in 1..Len(players) :
                players[i].status = ACTIVE
                  => /\ players[i].points >= b.points
                     /\ players[i].points = b.points => players[i].wins >= b.wins
                     /\ (players[i].points = b.points /\ players[i].wins = b.wins)
                          => players[i].matches <= b.matches]_vars

\* C13 witness: the bye went to a player who had fewer points than another
\* ACTIVE player (the recipient's points now include the bye)
C13_Witness ==
  /\ run.bye # 0
  /\ \E i, j \in 1..Len(players) :
       /\ players[i].id = run.bye
       /\ players[j].id \in run.elig \ {run.bye}
       /\ players[j].points > players[i].points - POINTS_BYE

\* table numbers of the rows of the round sheet that hold a pair
PairedTables(ip) == {ip[i].table : i \in {j \in 1..Len(ip) : ip[j].id2 # 0}}

\* C14: granting a bye adds POINTS_BYE points, one win and one played match to
\* the recipient, leaves the recipient's losses and every other player
\* unchanged, and appends exactly one history record: result "Bye", no second
\* player, the table number after the round's last paired table
C14_ByeGrant ==
  [][(BodyStep /\ run'.bye # 0)
       => LET k == IdxOf(players, run'.bye)
              h == history'[Len(history')]
          IN  /\ k # 0
              /\ Len(players') = Len(players)
              /\ players'[k] = [players[k] EXCEPT !.points = @ + POINTS_BYE,
                                                  !.wins = @ + 1,
                                                  !.matches = @ + 1]
              /\ players'[k].losses = players[k].losses
              /\ \A i \in 1..Len(players) : i # k => players'[i] = players[i]
              /\ Len(history') = Len(history) + 1
              /\ SubSeq(history', 1, Len(history)) = history
              /\ h.result = "Bye"
              /\ h.id1 = run'.bye
              /\ h.id2 = 0
              /\ h.round = currentRound'
              /\ h.table = Max0(PairedTables(inProgress')) + 1]_vars

\* C14 witness: a bye was granted in a round that also seated a pair, so the
\* bye record carries a table number after the first
C14_Witness ==
  /\ run.bye # 0
  /\ run.pairs # <<>>
  /\ history # <<>>
  /\ history[Len(history)].result = "Bye"
  /\ history[Len(history)].table > MIN_TABLE_NUMBER

\* C15: an operation that cannot obtain the lock aborts with an error and has
\* written nothing: players, history, in-progress rows and the round counter
\* are as before the call, and the operation goes on to its finally block only
C15_TimeoutWritesNothing ==
  [][\A p \in Procs :
       /\ (pc[p] # "out" /\ pc'[p] = "out")
            => /\ ret' = "timeout"
               /\ lock \notin {0, p}
               /\ <<players, history, inProgress, currentRound>>' =
                    <<players, history, inProgress, currentRound>>
       /\ (pc[p] = "out" /\ pc'[p] # "out")
            => /\ pc'[p] = "idle"
               /\ steps' = steps
               /\ <<players, history, inProgress, currentRound>>' =
                    <<players, history, inProgress, currentRound>>]_vars

\* C15 witness: an operation timed out on a tournament with players, a seated
\* match and a recorded result
C15_Witness ==
  /\ ret = "timeout"
  /\ \E p \in Procs : pc[p] = "out"
  /\ players # <<>>
  /\ history # <<>>
  /\ \E i \in 1..Len(inProgress) : Occupied(inProgress[i])

\* C16: the lock is never left held after an operation ends: an operator that
\* is not inside an operation (idle, or between the prologue and the body)
\* does not hold the lock, whatever way its last operation ended
C16_ReleasedOnReturn == \A p \in Procs : lock = p => pc[p] = "ret"

\* C16 witness: a body ended on a failure path with the lock still held, its
\* finally block pending
C16_Witness ==
  /\ ret = "fail"
  /\ history # <<>>
  /\ op.p # 0
  /\ lock = op.p
  /\ pc[op.p] = "ret"

\* the operations that go through updatePlayerState
UpdateOps == {"recordResult", "dropoutPlayer", "setPlayerResting"}

\* C17: in the continuous variant the locked body of an updatePlayerState
\* operation contains no pairing run: matchPlayers is not called (and does
\* not ask for the lock) while its caller still holds the lock
C17_PairingAfterRelease ==
  ~(variant = "continuous" /\ op.name \in UpdateOps /\ run.ran)

OpenRow(ip) == \E i \in 1..Len(ip) : ip[i].id1 # 0 /\ ip[i].result = ""

\* C19: no round is started while a row of the current round with a first
\* player has an empty result, or with fewer than two ACTIVE players; a
\* startNewRound called then returns a failure and changes nothing, whatever
\* the other operator is doing
C19_RoundStartGuard ==
  [][(variant = "swiss"
        /\ (OpenRow(inProgress) \/ Cardinality(WithStatus(players, ACTIVE)) < 2))
       => /\ currentRound' = currentRound
          /\ (BodyStep /\ op'.name = "startNewRound")
               => /\ ret' = "fail"
                  /\ ~run'.ran
                  /\ <<players, history, inProgress>>' = <<players, history, inProgress>>]_vars

\* C19 witness: startNewRound failed on a round with an open row while the
\* other operator was inside an operation of its own
C19_Witness ==
  /\ op.name = "startNewRound"
  /\ ret = "fail"
  /\ currentRound > 0
  /\ OpenRow(inProgress)
  /\ Cardinality(WithStatus(players, ACTIVE)) >= 2
  /\ \E p \in Procs : p # op.p /\ pc[p] # "idle"

\* C20: once the tournament status is FINISHED it stays FINISHED, no player is
\* added and no round is started: the round counter does not move and no
\* pairing is made
C20_FinishedIsTerminal ==
  [][tournamentStatus = "FINISHED"
       => /\ tournamentStatus' = "FINISHED"
          /\ Len(players') = Len(players)
          /\ currentRound' = currentRound
          /\ run'.pairs = <<>>
          /\ run'.bye = 0]_vars

\* C21: in the continuous variant the table number of every occupied
\* in-progress row lies in [MIN_TABLE_NUMBER, maxTables] for the current
\* maxTables
C21_TableInRange ==
  variant = "continuous"
    => \A i \in 1..Len(inProgress) :
         Occupied(inProgress[i])
           => /\ inProgress[i].table >= MIN_TABLE_NUMBER
              /\ inProgress[i].table <= maxTables

\* C22: in the Swiss variant every row of the current-round sheet and every
\* history record carries a table number in [MIN_TABLE_NUMBER, maxTables]
C22_SwissTableInRange ==
  variant = "swiss"
    => /\ \A i \in 1..Len(inProgress) :
            /\ inProgress[i].table >= MIN_TABLE_NUMBER
            /\ inProgress[i].table <= maxTables
       /\ \A i \in 1..Len(history) :
            /\ history[i].table >= MIN_TABLE_NUMBER
            /\ history[i].table <= maxTables

\* C23: whenever updatePlayerState returns success = false (unknown player,
\* dropped player, IN_PROGRESS player without a pairing row, dropped
\* opponent, exception), no player record, history row or in-progress row has
\* been modified
C23_FailureWritesNothing ==
  [][(BodyStep /\ op'.name \in UpdateOps /\ ret' = "fail")
       => <<players, history, inProgress>>' = <<players, history, inProgress>>]_vars

\* C23 witness: updatePlayerState failed for an IN_PROGRESS player who has no
\* pairing row, while another match was on the sheet
C23_Witness ==
  /\ op.name \in UpdateOps
  /\ ret = "fail"
  /\ StatusOf(players, op.a) = IN_PROGRESS
  /\ FindMatchRow(inProgress, op.a) = 0
  /\ \E i \in 1..Len(inProgress) : Occupied(inProgress[i])

\* the statistics columns of a player row
StatsOf(r) == <<r.wins, r.losses, r.matches, r.points>>

\* C24: a successful recordResult appends exactly one history row, carrying
\* the table number of the concluded match, adds one win to the winner, one
\* loss to the loser and one played match to each, and changes no other
\* player's statistics
C24_RecordResultEffect ==
  [][(BodyStep /\ op'.name = "recordResult" /\ ret' = "ok")
       => LET w == op'.a
              row == FindMatchRow(inProgress, w)
              l == OpponentIn(inProgress[row], w)
              h == history'[Len(history')]
          IN  /\ StatusOf(players, w) = IN_PROGRESS
              /\ row # 0
              /\ Len(history') = Len(history) + 1
              /\ SubSeq(history', 1, Len(history)) = history
              /\ h.table = inProgress[row].table
              /\ h.id1 = w /\ h.id2 = l /\ h.winner = w
              /\ Len(players') = Len(players)
              /\ \A i \in 1..Len(players) :
                    LET r == players[i]
                    IN  StatsOf(players'[i]) =
                          IF r.id = w
                          THEN <<r.wins + 1, r.losses, r.matches + 1, r.points>>
                          ELSE IF r.id = l
                          THEN <<r.wins, r.losses + 1, r.matches + 1, r.points>>
                          ELSE StatsOf(r)]_vars

\* C24 witness: a result was recorded for a match at a table other than the
\* first, with players outside the match on the sheet
C24_Witness ==
  /\ op.name = "recordResult"
  /\ ret = "ok"
  /\ history[Len(history)].table > MIN_TABLE_NUMBER
  /\ Len(players) > 2

\* the rows of the round sheet that carry a first player and no result
Unrecorded(ip) == {i \in 1..Len(ip) : ip[i].id1 # 0 /\ ip[i].result = ""}

\* C25: isRoundComplete is true exactly when every row of the round sheet with
\* a first player has a result; in particular it is true for an empty sheet
\* and for a sheet whose rows without a result-bearing opponent are bye rows
\* marked "Bye"
C25_RoundCompleteIff ==
  variant = "swiss"
    => /\ isRoundComplete(inProgress) <=> Unrecorded(inProgress) = {}
       /\ inProgress = <<>> => isRoundComplete(inProgress)
       /\ (\A i \in 1..Len(inProgress) :
              \/ inProgress[i].id2 # 0 /\ inProgress[i].result # ""
              \/ inProgress[i].id2 = 0 /\ inProgress[i].result = "Bye")
            => isRoundComplete(inProgress)

\* C25 witness: a round with a bye row and a played match, all results in
C25_Witness ==
  /\ variant = "swiss"
  /\ ByeRows(inProgress) # {}
  /\ \E i \in 1..Len(inProgress) : inProgress[i].id2 # 0
  /\ isRoundComplete(inProgress)

\* the players of the rows of the round sheet, row by row
Pairings(ip) == [i \in 1..Len(ip) |-> <<ip[i].round, ip[i].id1, ip[i].id2>>]

\* the Swiss operations that record a result, register or drop a player
SwissEditOps == {"recordWinLoss", "recordDraw", "registerPlayer", "dropoutPlayer"}

\* C26: in the Swiss variant recording a result, registering a player and
\* dropping a player leave the rows of the round sheet and their players as
\* they are; the pairings change only in a step of startNewRound
C26_PairingsOnlyByNewRound ==
  [][variant = "swiss"
       => /\ (BodyStep /\ op'.name \in SwissEditOps)
               => Pairings(inProgress') = Pairings(inProgress)
          /\ Pairings(inProgress') # Pairings(inProgress)
               => BodyStep /\ op'.name = "startNewRound"]_vars

\* C26 witness: a result has been recorded and the row still shows both
\* players of the match
C26_Witness ==
  /\ variant = "swiss"
  /\ op.name \in {"recordWinLoss", "recordDraw"}
  /\ ret = "ok"
  /\ op.r \in 1..Len(inProgress)
  /\ inProgress[op.r].result # ""
  /\ {inProgress[op.r].id1, inProgress[op.r].id2} = {op.a, op.b}

\* the ids on the players sheet, as a set and row by row
IdsOf(pl) == {pl[i].id : i \in 1..Len(pl)}

IdsSeq(pl) == [i \in 1..Len(pl) |-> pl[i].id]

\* C27: player ids are pairwise distinct in every reachable state, and a step
\* that adds players gives them ids that no row carried before, whichever
\* operator registers and whatever the status of the earlier players
C27_IdsDistinct ==
  [][/\ \A i, j \in 1..Len(players') : i # j => players'[i].id # players'[j].id
     /\ Len(players') >= Len(players)
     /\ SubSeq(IdsSeq(players'), 1, Len(players)) = IdsSeq(players)
     /\ \A i \in (Len(players) + 1)..Len(players') : players'[i].id \notin IdsOf(players)]_vars

\* C27 witness: a player has been registered after an earlier player dropped
\* out, while the other operator is about to register as well
C27_Witness ==
  /\ op.name = "registerPlayer"
  /\ ret = "ok"
  /\ players[Len(players)].id = op.a
  /\ \E i \in 1..(Len(players) - 1) : players[i].status = DROPPED
  /\ \E q \in Procs : pc[q] = "wait" /\ local[q].type = "register"

\* C28: the opponents calculateOpponentWinRate averages over never include a
\* player whose status is DROPPED
C28_NoDroppedOpponent ==
  variant = "swiss"
    => \A i \in 1..Len(players) :
         \A o \in countedOpponents(players, history, players[i].id) :
           StatusOf(players, o) # DROPPED

\* the ACTIVE players without a row on the round sheet
Unpaired(pl, ip) ==
  {id \in WithStatus(pl, ACTIVE) :
     \A i \in 1..Len(ip) : id \notin {ip[i].id1, ip[i].id2}}

\* C29: after matchPlayersSwiss has paired a round, no two ACTIVE players
\* left without a row have never played each other: a first player who has
\* played everybody remaining is set aside and the rest are still paired
C29_RestStillPaired ==
  (variant = "swiss" /\ op.name = "startNewRound" /\ run.ran /\ run.pool # {})
    => \A a, b \in Unpaired(players, inProgress) :
         a # b => Played(history, a, b)

\* the place of a player in the priority order the pairing loop ran on
PosIn(order, id) == CHOOSE i \in 1..Len(order) : order[i] = id

\* the candidates ranked between the two players of the k-th pair that were
\* still remaining when the pair was made
PassedOver(k) ==
  LET order == run.order
      before == PairIds(SubSeq(run.pairs, 1, k - 1))
  IN  {order[i] : i \in (PosIn(order, run.pairs[k][1]) + 1)
                          ..(PosIn(order, run.pairs[k][2]) - 1)} \ before

\* C30: in both pairing strategies the partner of the first player p1 is the
\* earliest remaining player of the priority order that p1 has not played:
\* every remaining candidate ranked between the two is a past opponent of p1
C30_EarliestFreshPartner ==
  run.ran
    => \A k \in 1..Len(run.pairs) :
         /\ {run.pairs[k][1], run.pairs[k][2]} \subseteq Range(run.order)
         /\ PosIn(run.order, run.pairs[k][1]) < PosIn(run.order, run.pairs[k][2])
         /\ \A c \in PassedOver(k) : Played(history, run.pairs[k][1], c)

\* C30 witness: a pairing in which a remaining candidate was passed over
\* because the first player had played that candidate
C30_Witness ==
  /\ run.ran
  /\ \E k \in 1..Len(run.pairs) : PassedOver(k) # {}

\* the list matchPlayersSwiss hands to the shuffle: the sorted ACTIVE players
\* without the bye player
Sorted(pl) == availablePlayers(activePlayers(pl))

\* C31: every outcome of the shuffle before pairing holds exactly the players
\* of the sorted list, with the same point value at every position, so the
\* list is still non-increasing in points: players move only inside runs of
\* equal points
C31_ShuffleWithinGroups ==
  variant = "swiss"
    => \A t \in remainingPlayers(players) :
         /\ Len(t) = Len(Sorted(players))
         /\ Range(t) = Range(Sorted(players))
         /\ \A i \in 1..Len(t) : t[i].points = Sorted(players)[i].points
         /\ \A i, j \in 1..Len(t) : i < j => t[i].points >= t[j].points

\* C31 witness: a round was paired on a shuffled list that differs from the
\* sorted one and spans more than one point value
C31_Witness ==
  /\ variant = "swiss"
  /\ op.name = "startNewRound"
  /\ run.ran
  /\ run.bye = 0
  /\ run.order # Ids(Sorted(players))
  /\ \E t \in remainingPlayers(players) : run.order = Ids(t)
  /\ \E i \in 1..Len(Sorted(players)) : Sorted(players)[i].points # Sorted(players)[1].points

\* the rows of a sheet that carry a table number and no players
FreeRows(ip) == {i \in 1..Len(ip) : ip[i].table # 0 /\ ip[i].id1 = 0}

\* the tables the seating rule allows for a pair whose first player is p1,
\* on the sheet ip: the last table p1 won at when it is a free row within
\* the limit, else any free row, else the lowest number of [1, maxTables]
\* that is not on the sheet
RuleTables(ip, hist, mt, p1) ==
  LET last == getLastTableNumber(hist, p1)
      onSheet == {ip[i].table : i \in 1..Len(ip)}
      unused == {n \in MIN_TABLE_NUMBER..mt : n \notin onSheet}
  IN  IF /\ last >= MIN_TABLE_NUMBER /\ last <= mt
         /\ \E i \in FreeRows(ip) : ip[i].table = last
      THEN {last}
      ELSE IF FreeRows(ip) # {}
      THEN {ip[i].table : i \in FreeRows(ip)}
      ELSE {n \in unused : \A k \in unused : n <= k}

VoidOps == {"dropoutPlayer", "setPlayerResting"}

RowsOf(ip, id) == {i \in 1..Len(ip) : Occupied(ip[i]) /\ id \in {ip[i].id1, ip[i].id2}}

\* no operation is running: every operator is idle and the lock is free
Quiet == lock = 0 /\ \A p \in Procs : pc[p] = "idle"

\* C34: in the continuous variant, whenever no operation is running, a player
\* is IN_PROGRESS exactly when the player is on exactly one occupied row of
\* the in-progress sheet
C34_InProgressIffOneRow ==
  (variant = "continuous" /\ Quiet)
    => \A i \in 1..Len(players) :
         players[i].status = IN_PROGRESS
           <=> Cardinality(RowsOf(inProgress, players[i].id)) = 1

\* C35: in the Swiss variant, when recordMatchResult writes a result, the row
\* it writes to held, at the time of the locked write, exactly the two players
\* it was called with.
C35_ResultOnOwnRow ==
  [][(variant = "swiss" /\ BodyStep /\ op'.name \in {"recordWinLoss", "recordDraw"}
        /\ ret' = "ok")
       => {inProgress[op'.r].id1, inProgress[op'.r].id2} = {op'.a, op'.b}]_vars

\* C36: in the Swiss variant every player's points are POINTS_WIN times the
\* player's wins, in every reachable state.
C36_PointsAreWins ==
  variant = "swiss"
    => \A i \in 1..Len(players) : players[i].points = POINTS_WIN * players[i].wins

\* C37: a startNewRound that returns success=false leaves the round counter
\* and the current-round sheet as they were; the round counter changes only
\* by +1, on a startNewRound that returns success=true.
C37_FailedRoundChangesNothing ==
  [][/\ (BodyStep /\ op'.name = "startNewRound" /\ ret' = "fail")
          => (currentRound' = currentRound /\ inProgress' = inProgress)
     /\ currentRound' # currentRound
          => (/\ BodyStep /\ op'.name = "startNewRound" /\ ret' = "ok"
              /\ currentRound' = currentRound + 1)]_vars

\* C38: in the continuous variant, whenever no operation is running, any two
\* WAITING players have already played each other.
C38_WaitingAllPlayed ==
  (variant = "continuous" /\ Quiet)
    => \A i, j \in 1..Len(players) :
         (i # j /\ players[i].status = WAITING /\ players[j].status = WAITING)
           => Played(history, players[i].id, players[j].id)

C38_Witness ==
  /\ variant = "continuous"
  /\ Quiet
  /\ Len(history) >= 3
  /\ \E i, j, k \in 1..Len(players) :
       /\ i < j /\ j < k
       /\ \A n \in {i, j, k} : players[n].status = WAITING
       /\ \A m, n \in {i, j, k} : m # n => Played(history, players[m].id, players[n].id)

\* the history and the players after correctMatchResult has been carried out
\* on history row `row`
Corrected(pl, hist, row) ==
  [history |-> SwapHistory(hist, row),
   players |-> CorrectStats(pl, hist[row].id1, hist[row].id2)]

WinsLosses(pl, id) == <<pl[IdxOf(pl, id)].wins, pl[IdxOf(pl, id)].losses>>

WinLossRecord(h) == h.result \notin {"Bye", "draw"} /\ h.id1 # 0 /\ h.id2 # 0

\* C39: in every reachable state, correctMatchResult carried out twice in
\* succession on the same win/loss record gives back the history row and the
\* wins and losses of the two players of the record.
C39_CorrectTwiceRestores ==
  \A row \in 1..Len(history) :
    WinLossRecord(history[row])
      => LET once == Corrected(players, history, row)
             twice == Corrected(once.players, once.history, row)
         IN  /\ twice.history[row] = history[row]
             /\ \A id \in {history[row].id1, history[row].id2} :
                  IdxOf(players, id) # 0
                    => WinsLosses(twice.players, id) = WinsLosses(players, id)

====
